---- MODULE Spec2Model ----
(***************************************************************************)
(* Model of databricks_query.py: the DatabricksConnection handle (connect, *)
(* execute_query, query_to_dataframe, close) and the convenience function  *)
(* pull_databricks_data.  The SQL client and the table constructor are the *)
(* environment: whether a library call raises, which rows fetchall returns *)
(* and what cursor.description holds are chosen nondeterministically.      *)
(***************************************************************************)
EXTENDS Integers, Sequences, FiniteSets

\* ---------------------------------------------------------------- bounds
MaxSessions == 2   \* sessions one handle may open in a behaviour of Spec
MaxRows == 2       \* rows a fetchall may return
MaxWidth == 2      \* values in a row, and entries in cursor.description

\* --------------------------------------------------------------- values
\* Python's None for self.connection / self.cursor (lines 36-37).
None == 0

\* The cell pandas fills in where a row is shorter than the widest row.
NoneCell == 0

ColNames == <<"id", "name", "value", "extra">>
TypeCodes == <<"int", "string", "double", "binary">>

\* The query text is handed to cursor.execute as it is; whether it fails is
\* the environment's choice.
Queries == {"SELECT * FROM t"}

Max(a, b) == IF a >= b THEN a ELSE b

\* A value handed back by a call: nothing, a row sequence, or a table.
NoValue == [tag |-> "None", data |-> <<>>, columns |-> <<>>]
RowsValue(rows) == [tag |-> "rows", data |-> rows, columns |-> <<>>]
TableValue(rows, columns) == [tag |-> "table", data |-> rows, columns |-> columns]
DescValue(desc) == [tag |-> "description", data |-> desc, columns |-> <<>>]

\* Row i of a result with the given width: distinct cells, so that a row
\* sequence determines its order.
MkRow(i, width) == [j \in 1..width |-> 10 * i + j]

\* The results fetchall may return: 0..MaxRows rows, each 1..MaxWidth wide
\* (rows of one result need not have the same width).
RowSets ==
  UNION { { [i \in 1..n |-> MkRow(i, ws[i])] : ws \in [1..n -> 1..MaxWidth] }
          : n \in 0..MaxRows }

\* The values cursor.description may hold after execute: None, or a
\* sequence of entries whose first element is the column name.
NoDescription == NoValue
MkDescription(n) == DescValue([j \in 1..n |-> <<ColNames[j], TypeCodes[j]>>])
Descriptions == {NoDescription} \cup { MkDescription(n) : n \in 0..MaxWidth }

\* What the environment does during one operation.
Envs ==
  [ connectExc : {"", "AuthFailure", "Unreachable"},
    cursorFails : BOOLEAN,
    executeFails : BOOLEAN,
    fetchFails : BOOLEAN,
    rows : RowSets,
    description : Descriptions,
    cursorCloseFails : BOOLEAN,
    connCloseFails : BOOLEAN ]

\* ---------------------------------------------------------------- state
VARIABLES
  connection,  \* self.connection: None or a session id
  cursor,      \* self.cursor: None or a cursor id
  nSess,       \* sessions created so far
  sessOpen,    \* sessions created and not closed
  curOpen,     \* cursors created and not closed
  curParent,   \* curParent[c]: the session cursor c was created on
  calls,       \* the last operation: methods entered and library calls made
  out,         \* the last operation: messages printed
  outcome      \* the last operation: returned value or raised exception

vars == <<connection, cursor, nSess, sessOpen, curOpen, curParent, calls, out, outcome>>

\* An entry of calls.
Ev(op, id, q, val) == [op |-> op, id |-> id, q |-> q, val |-> val]

NoOutcome == [kind |-> "none", exc |-> "", context |-> "", value |-> NoValue]
Return(v) == [kind |-> "return", exc |-> "", context |-> "", value |-> v]
Raise(exc) == [kind |-> "raise", exc |-> exc, context |-> "", value |-> NoValue]

Printed(msg, exc, n) == [msg |-> msg, exc |-> exc, n |-> n]

\* DatabricksConnection.__init__: no connection, no cursor.
NewHandle ==
  [ connection |-> None, cursor |-> None, nSess |-> 0, sessOpen |-> {},
    curOpen |-> {}, curParent |-> <<>>, calls |-> <<>>, out |-> <<>>,
    outcome |-> NoOutcome ]

Called(s, ev) == [s EXCEPT !.calls = Append(@, ev)]
Emit(s, p) == [s EXCEPT !.out = Append(@, p)]
Finish(s, o) == [s EXCEPT !.outcome = o]

\* A cursor can execute while it and its session are open.
Usable(s, c) == c \in s.curOpen /\ s.curParent[c] \in s.sessOpen

\* ----------------------------------------------------------- operations
\* Each method is an operator from the state it is entered in (and what the
\* environment does) to the state it is left in; s.outcome is how it ended.

\* DatabricksConnection.connect
connect(s, e) ==
  LET s0 == Called(s, Ev("connect", 0, "", NoValue))
      s1 == Called(s0, Ev("sql.connect", 0, "", NoValue))
  IN IF e.connectExc # ""
     THEN Finish(Emit(s1, Printed("Failed to connect to Databricks", e.connectExc, 0)),
                 Raise(e.connectExc))
     ELSE LET sid == s.nSess + 1
              s2 == [s1 EXCEPT !.connection = sid, !.nSess = sid,
                               !.sessOpen = @ \cup {sid}]
              s3 == Called(s2, Ev("connection.cursor", sid, "", NoValue))
          IN IF e.cursorFails
             THEN Finish(Emit(s3, Printed("Failed to connect to Databricks", "CursorFailure", 0)),
                         Raise("CursorFailure"))
             ELSE LET cid == Len(s.curParent) + 1
                      s4 == [s3 EXCEPT !.cursor = cid, !.curOpen = @ \cup {cid},
                                       !.curParent = Append(@, sid)]
                  IN Finish(Emit(s4, Printed("Connected to Databricks", "", 0)),
                            Return(NoValue))

\* execute_query with a handle that has no cursor answered by an empty result
\* instead of a failure.
execute_query_fallback(s, query, e) ==
  LET s0 == Called(s, Ev("execute_query", 0, query, NoValue))
      Fail(t, exc) == Finish(Emit(t, Printed("Query execution failed", exc, 0)), Raise(exc))
  IN IF s.cursor = None \/ ~Usable(s, s.cursor)
     THEN Finish(s0, Return(RowsValue(<<>>)))
     ELSE LET s1 == Called(s0, Ev("cursor.execute", s.cursor, query, NoValue))
          IN IF e.executeFails THEN Fail(s1, "QueryFailure")
             ELSE IF e.fetchFails
                  THEN Fail(Called(s1, Ev("cursor.fetchall", s.cursor, "", NoValue)),
                            "FetchFailure")
                  ELSE Finish(Called(s1, Ev("cursor.fetchall", s.cursor, "", RowsValue(e.rows))),
                              Return(RowsValue(e.rows)))

\* DatabricksConnection.execute_query
execute_query(s, query, e) ==
  LET s0 == Called(s, Ev("execute_query", 0, query, NoValue))
      Fail(t, exc) == Finish(Emit(t, Printed("Query execution failed", exc, 0)), Raise(exc))
  IN IF s.cursor = None
     THEN Fail(s0, "AttributeError")
     ELSE LET s1 == Called(s0, Ev("cursor.execute", s.cursor, query, NoValue))
          IN IF ~Usable(s, s.cursor) THEN Fail(s1, "InvalidSession")
             ELSE IF e.executeFails THEN Fail(s1, "QueryFailure")
             ELSE IF e.fetchFails
                  THEN Fail(Called(s1, Ev("cursor.fetchall", s.cursor, "", NoValue)),
                            "FetchFailure")
                  ELSE Finish(Called(s1, Ev("cursor.fetchall", s.cursor, "", RowsValue(e.rows))),
                              Return(RowsValue(e.rows)))

\* pd.DataFrame(results, columns=columns): the widest row decides the width
\* of the data; shorter rows are filled with None; an empty result takes
\* the columns as given.
DataWidth(results) ==
  LET W[i \in 0..Len(results)] ==
        IF i = 0 THEN 0 ELSE Max(W[i - 1], Len(results[i]))
  IN W[Len(results)]

DataFrameFails(results, columns) ==
  Len(results) > 0 /\ DataWidth(results) # Len(columns)

DataFrame(results, columns) ==
  TableValue([i \in 1..Len(results) |->
                [j \in 1..Len(columns) |->
                   IF j <= Len(results[i]) THEN results[i][j] ELSE NoneCell]],
             columns)

\* columns = [desc[0] for desc in self.cursor.description]
ColumnsOf(description) ==
  [j \in 1..Len(description.data) |-> description.data[j][1]]

\* DatabricksConnection.query_to_dataframe
query_to_dataframe(s, query, e) ==
  LET s0 == Called(s, Ev("query_to_dataframe", 0, query, NoValue))
      s1 == execute_query(s0, query, e)
      Fail(t, exc) ==
        Finish(Emit(t, Printed("Failed to convert results to DataFrame", exc, 0)), Raise(exc))
  IN IF s1.outcome.kind = "raise"
     THEN Fail(s1, s1.outcome.exc)
     ELSE LET results == s1.outcome.value.data
              s2 == Called(s1, Ev("cursor.description", s.cursor, "", e.description))
          IN IF e.description = NoDescription
             THEN Fail(s2, "TypeError")
             ELSE LET columns == ColumnsOf(e.description)
                  IN IF DataFrameFails(results, columns)
                     THEN Fail(Called(s2, Ev("pd.DataFrame", 0, "", NoValue)), "ValueError")
                     ELSE LET df == DataFrame(results, columns)
                              s3 == Called(s2, Ev("pd.DataFrame", 0, "", df))
                          IN Finish(Emit(s3, Printed("Retrieved rows", "", Len(df.data))),
                                    Return(df))

\* close with the connection's test nested under the cursor's.
close_nested(s, e) ==
  LET s0 == Called(s, Ev("close", 0, "", NoValue))
  IN IF s.cursor = None THEN Finish(s0, Return(NoValue))
     ELSE LET t == Called(s0, Ev("cursor.close", s.cursor, "", NoValue))
          IN IF e.cursorCloseFails THEN Finish(t, Raise("CursorCloseFailure"))
             ELSE LET t1 == [t EXCEPT !.curOpen = @ \ {s.cursor}]
                      t2 == Called(t1, Ev("connection.close", s.connection, "", NoValue))
                  IN IF s.connection = None THEN Finish(t1, Return(NoValue))
                     ELSE IF e.connCloseFails
                          THEN Finish(t2, Raise("ConnectionCloseFailure"))
                          ELSE Finish(Emit([t2 EXCEPT !.sessOpen = @ \ {s.connection}],
                                           Printed("Connection closed", "", 0)),
                                      Return(NoValue))

\* DatabricksConnection.close
close(s, e) ==
  LET s0 == Called(s, Ev("close", 0, "", NoValue))
      s1 == IF s.cursor # None
            THEN LET t == Called(s0, Ev("cursor.close", s.cursor, "", NoValue))
                 IN IF e.cursorCloseFails
                    THEN Finish(t, Raise("CursorCloseFailure"))
                    ELSE Finish([t EXCEPT !.curOpen = @ \ {s.cursor}], Return(NoValue))
            ELSE Finish(s0, Return(NoValue))
  IN IF s1.outcome.kind = "raise" THEN s1
     ELSE IF s.connection # None
          THEN LET t == Called(s1, Ev("connection.close", s.connection, "", NoValue))
               IN IF e.connCloseFails
                  THEN Finish(t, Raise("ConnectionCloseFailure"))
                  ELSE Finish(Emit([t EXCEPT !.sessOpen = @ \ {s.connection}],
                                   Printed("Connection closed", "", 0)),
                              Return(NoValue))
          ELSE s1

\* The try block with the as_dataframe flag ignored.
PullBody_always_table(s, query, as_dataframe, e) ==
  LET s1 == connect(s, e)
  IN IF s1.outcome.kind = "raise" THEN s1
     ELSE query_to_dataframe(s1, query, e)

\* The try block of pull_databricks_data.
PullBody(s, query, as_dataframe, e) ==
  LET s1 == connect(s, e)
  IN IF s1.outcome.kind = "raise" THEN s1
     ELSE IF as_dataframe THEN query_to_dataframe(s1, query, e)
          ELSE execute_query(s1, query, e)

\* pull_databricks_data: a new handle, the try block, and close() in the
\* finally block.  An exception raised by close() replaces whatever the try
\* block returned or raised; the replaced exception is kept as its context.
pull_databricks_data(query, as_dataframe, e) ==
  LET s0 == Called(NewHandle, Ev("pull_databricks_data", 0, query,
                                 IF as_dataframe THEN TableValue(<<>>, <<>>)
                                 ELSE RowsValue(<<>>)))
      body == PullBody(s0, query, as_dataframe, e)
      fin == close(body, e)
  IN IF fin.outcome.kind = "raise"
     THEN Finish(fin, [fin.outcome EXCEPT !.context = body.outcome.exc])
     ELSE Finish(fin, body.outcome)

\* -------------------------------------------------------------- actions
Begin == [ connection |-> connection, cursor |-> cursor, nSess |-> nSess,
           sessOpen |-> sessOpen, curOpen |-> curOpen, curParent |-> curParent,
           calls |-> <<>>, out |-> <<>>, outcome |-> NoOutcome ]

Commit(s) ==
  /\ connection' = s.connection
  /\ cursor' = s.cursor
  /\ nSess' = s.nSess
  /\ sessOpen' = s.sessOpen
  /\ curOpen' = s.curOpen
  /\ curParent' = s.curParent
  /\ calls' = s.calls
  /\ out' = s.out
  /\ outcome' = s.outcome

Init ==
  /\ connection = NewHandle.connection
  /\ cursor = NewHandle.cursor
  /\ nSess = NewHandle.nSess
  /\ sessOpen = NewHandle.sessOpen
  /\ curOpen = NewHandle.curOpen
  /\ curParent = NewHandle.curParent
  /\ calls = NewHandle.calls
  /\ out = NewHandle.out
  /\ outcome = NewHandle.outcome

\* The environment of each operation: only the choices it can meet vary.
Quiet ==
  [ connectExc |-> "", cursorFails |-> FALSE, executeFails |-> FALSE,
    fetchFails |-> FALSE, rows |-> <<>>, description |-> NoDescription,
    cursorCloseFails |-> FALSE, connCloseFails |-> FALSE ]

ConnectEnvs ==
  { [Quiet EXCEPT !.connectExc = x, !.cursorFails = c] :
      x \in {"", "AuthFailure", "Unreachable"}, c \in BOOLEAN }

\* A query that fails fetches nothing, and a fetch that fails returns nothing.
FailedQueryEnvs ==
  { [Quiet EXCEPT !.executeFails = TRUE], [Quiet EXCEPT !.fetchFails = TRUE] }

FetchedEnvs == { [Quiet EXCEPT !.rows = r] : r \in RowSets }

QueryEnvs == FailedQueryEnvs \cup FetchedEnvs

TableEnvs ==
  FailedQueryEnvs \cup
  { [e EXCEPT !.description = d] : e \in FetchedEnvs, d \in Descriptions }

CloseEnvs ==
  { [Quiet EXCEPT !.cursorCloseFails = c, !.connCloseFails = n] :
      c \in BOOLEAN, n \in BOOLEAN }

Connect ==
  /\ nSess < MaxSessions
  /\ \E e \in ConnectEnvs : Commit(connect(Begin, e))

ExecuteQuery ==
  /\ TRUE
  /\ \E q \in Queries, e \in QueryEnvs : Commit(execute_query(Begin, q, e))

QueryToDataframe ==
  /\ TRUE
  /\ \E q \in Queries, e \in TableEnvs : Commit(query_to_dataframe(Begin, q, e))

Close ==
  /\ TRUE
  /\ \E e \in CloseEnvs : Commit(close(Begin, e))

Pull ==
  /\ outcome.kind = "none"
  /\ \E q \in Queries, df \in BOOLEAN, e \in Envs :
        Commit(pull_databricks_data(q, df, e))

\* One handle, driven by any sequence of its methods.
Next == Connect \/ ExecuteQuery \/ QueryToDataframe \/ Close
Spec == Init /\ [][Next]_vars

\* One call of pull_databricks_data.
NextPull == Pull
SpecPull == Init /\ [][NextPull]_vars

\* ------------------------------------------------------------ properties
\* What the last operation did.
LastOp == IF calls = <<>> THEN "" ELSE calls[1].op
OpsIn(cs, name) == { i \in DOMAIN cs : cs[i].op = name }
Ops(name) == OpsIn(calls, name)
QueryOps == Ops("execute_query") \cup Ops("query_to_dataframe")
Diagnostics(o) == { i \in DOMAIN o : o[i].exc # "" }
CloseExcs == {"CursorCloseFailure", "ConnectionCloseFailure"}
QueryMsgs == {"Query execution failed", "Failed to convert results to DataFrame"}
Fetched == { calls[i].val.data : i \in { k \in Ops("cursor.fetchall") : calls[k].val.tag = "rows" } }
Described == { ColumnsOf(calls[i].val) :
                 i \in { k \in Ops("cursor.description") : calls[k].val.tag = "description" } }

\* C1: when the query step of pull_databricks_data fails, close() still runs
\* and the caller observes the query's failure, never one raised by close().
C1_QueryFailureObserved ==
  \A i \in DOMAIN out :
    (LastOp = "pull_databricks_data" /\ out[i].msg \in QueryMsgs)
      => /\ Ops("close") # {}
         /\ outcome.kind = "raise"
         /\ outcome.exc = out[i].exc

\* C2: when connect() fails inside pull_databricks_data, no query is
\* executed, close() is invoked exactly once and does not raise, and the
\* caller observes the failure connect() raised.
C2_ConnectFailureObserved ==
  \A i \in DOMAIN out :
    (LastOp = "pull_databricks_data" /\ out[i].msg = "Failed to connect to Databricks")
      => /\ QueryOps = {} /\ Ops("cursor.execute") = {}
         /\ Cardinality(Ops("close")) = 1
         /\ outcome.kind = "raise"
         /\ outcome.exc \notin CloseExcs
         /\ outcome.exc = out[i].exc

\* C3: when pull_databricks_data returns control to its caller, on any exit
\* path, every session and every cursor it acquired has been released: its
\* close() has been called.
C3_AllReleased ==
  LastOp = "pull_databricks_data" =>
    /\ \A sid \in 1..nSess : \E k \in Ops("connection.close") : calls[k].id = sid
    /\ \A cid \in DOMAIN curParent : \E k \in Ops("cursor.close") : calls[k].id = cid

\* C4: close() is idempotent: a close() that returns on a connected handle
\* leaves it holding no session and no cursor, and a close() after a close()
\* that returned does not raise and closes no cursor or connection again.
C4_CloseIdempotent ==
  [][ /\ (LastOp' = "close" /\ outcome'.kind = "return"
            /\ connection # None /\ cursor # None)
          => (connection' = None /\ cursor' = None)
      /\ (LastOp = "close" /\ outcome.kind = "return" /\ LastOp' = "close")
          => /\ outcome'.kind = "return"
             /\ OpsIn(calls', "cursor.close") = {}
             /\ OpsIn(calls', "connection.close") = {} ]_vars

\* C5: a failure of connect, execute_query or query_to_dataframe is reported
\* by exactly one diagnostic message and re-raised unchanged; a diagnostic is
\* never followed by a normal return.
C5_ReportedOnce ==
  LastOp \in {"connect", "execute_query", "query_to_dataframe"}
    => /\ outcome.kind = "raise"
          => /\ Cardinality(Diagnostics(out)) = 1
             /\ \A i \in Diagnostics(out) : out[i].exc = outcome.exc
       /\ Diagnostics(out) # {} => outcome.kind = "raise"

\* C6: at any time at most one session and at most one cursor created by a
\* handle are open.
C6_OneSessionOneCursor ==
  Cardinality(sessOpen) <= 1 /\ Cardinality(curOpen) <= 1

\* C7: a table returned by query_to_dataframe has as many rows as fetchall
\* returned, the names of cursor.description as its columns, and as many
\* columns as every fetched row has values; when a fetched row's width differs
\* from the number of columns the call fails with a diagnostic instead.
C7_TableShape ==
  LastOp = "query_to_dataframe" =>
    \A rows \in Fetched :
      /\ outcome.kind = "return" =>
           /\ outcome.value.tag = "table"
           /\ Len(outcome.value.data) = Len(rows)
           /\ \A columns \in Described : outcome.value.columns = columns
           /\ Described # {}
           /\ \A r \in DOMAIN rows : Len(rows[r]) = Len(outcome.value.columns)
      /\ \A columns \in Described :
           (\E r \in DOMAIN rows : Len(rows[r]) # Len(columns))
             => outcome.kind = "raise" /\ Diagnostics(out) # {}

\* C8: pull_databricks_data with as_dataframe=False returns exactly the rows
\* fetchall produced, reading no column metadata and building no table; with
\* as_dataframe=True it returns the table query_to_dataframe built; connect
\* comes before the query and close after it.
C8_PullResult ==
  LastOp = "pull_databricks_data" =>
    /\ (outcome.kind = "return" /\ calls[1].val.tag = "rows") =>
         /\ Fetched = {outcome.value.data}
         /\ outcome.value.tag = "rows"
         /\ Ops("query_to_dataframe") = {}
         /\ Ops("cursor.description") = {}
         /\ Ops("pd.DataFrame") = {}
    /\ (outcome.kind = "return" /\ calls[1].val.tag = "table") =>
         /\ Cardinality(Ops("query_to_dataframe")) = 1
         /\ Cardinality(Ops("pd.DataFrame")) = 1
         /\ \A i \in Ops("pd.DataFrame") : outcome.value = calls[i].val
         /\ outcome.value.tag = "table"
    /\ outcome.kind = "return" => QueryOps # {}
    /\ \A q \in QueryOps :
         /\ Ops("connect") # {} /\ \A c \in Ops("connect") : c < q
         /\ Ops("close") # {} /\ \A k \in Ops("close") : q < k

\* C9: close() closes the cursor first (when the handle holds one) and then
\* the connection (when it holds one); with neither it calls nothing and
\* returns; with a connection and no cursor it still closes the connection.
C9_CloseOrder ==
  LastOp = "close" =>
    /\ (cursor = None /\ connection = None)
         => Len(calls) = 1 /\ outcome.kind = "return"
    /\ (cursor = None /\ connection # None)
         => Len(calls) = 2 /\ calls[2] = Ev("connection.close", connection, "", NoValue)
    /\ cursor # None
         => /\ Len(calls) >= 2 /\ calls[2] = Ev("cursor.close", cursor, "", NoValue)
            /\ (connection # None /\ outcome.exc # "CursorCloseFailure")
                 => Len(calls) = 3 /\ calls[3] = Ev("connection.close", connection, "", NoValue)
    /\ \A c \in Ops("cursor.close"), k \in Ops("connection.close") : c < k

\* C10: execute_query on a handle without a valid open session (no cursor,
\* or a cursor that is closed) returns no rows: it raises, with the failure
\* reported, and leaves the handle's connection and cursor as they were.
C10_NoSessionNoRows ==
  [][ (LastOp' = "execute_query" /\ (cursor = None \/ ~Usable(Begin, cursor)))
        => /\ outcome'.kind = "raise"
           /\ outcome'.value = NoValue
           /\ Cardinality(Diagnostics(out')) = 1
           /\ \A i \in Diagnostics(out') : out'[i].exc = outcome'.exc
           /\ connection' = connection
           /\ cursor' = cursor ]_vars

\* ------------------------------------------------------------- witnesses
\* pull_databricks_data returned two fetched rows as they were.
C8_Witness ==
  /\ LastOp = "pull_databricks_data" /\ outcome.kind = "return"
  /\ outcome.value.tag = "rows" /\ Len(outcome.value.data) = 2

\* close() ran on a handle holding a connection and no cursor.
C9_Witness ==
  /\ LastOp = "close" /\ cursor = None /\ connection # None
  /\ outcome.kind = "return" /\ connection \notin sessOpen

\* execute_query failed on a handle whose cursor had been closed.
C10_Witness ==
  /\ LastOp = "execute_query" /\ outcome.kind = "raise"
  /\ cursor # None /\ cursor \notin curOpen

====
